---- MODULE Spec2Model ----
(***************************************************************************)
(* xlsform_orm: the pydantic (v1) entity layer (Question, QuestionGroup,   *)
(* Survey), the tree -> table encoder (items_to_dfs, prep_for_excel) and   *)
(* the table -> tree decoder (get_survey_args); make_assistant: the chat   *)
(* page's run-status loop.                                                 *)
(*                                                                         *)
(* Encoding of Python values.  A Python str is a TLA+ string.  A Python    *)
(* value that is not a str is written in angle brackets: "<None>",         *)
(* "<True>", "<5.0>", "<GroupTypes.repeat>" (an Enum member, which is not  *)
(* equal to its value "repeat").  "<missing>" marks a keyword argument the *)
(* caller did not pass.  The `type` strings, which the code builds with    *)
(* f"begin {type}" and takes apart with split(), startswith() and [6:],    *)
(* are sequences of their space-separated words: "begin group" is          *)
(* <<"begin", "group">> and "" is << >>.  Optional lists and dicts carry a  *)
(* kind, so that None, [] and the str() of a list stay apart.              *)
(***************************************************************************)
EXTENDS Integers, Sequences, FiniteSets, TLC

VARIABLES
  pc,        \* where the caller is
  args,      \* the constructor call the caller makes
  result,    \* what the call returned or raised
  dfs,       \* the sheets Survey.save_to_excel wrote
  scan,      \* get_survey_args: the rows and the locals of group_items
  parsed,    \* what Survey.parse_excel returned or raised
  reparsed,  \* what Survey.parse_obj(survey.dict()) returned or raised
  session_state,  \* make_assistant.py: st.session_state (run, retry_error, thread)
  page       \* make_assistant.py: the prompt of this execution, the errors shown

vars == <<pc, args, result, dfs, scan, parsed, reparsed, session_state, page>>

None == "<None>"
Missing == "<missing>"
PyTrue == "<True>"
PyFalse == "<False>"

\* Optional[List[...]]: None, not passed, a list, or the str() of a list
NoneL == [kind |-> "None", elems |-> << >>]
MissingL == [kind |-> "missing", elems |-> << >>]
L(s) == [kind |-> "list", elems |-> s]
StrL(s) == [kind |-> "str", elems |-> s]

\* Optional[Range | dict]: None, not passed, a Range, a dict (a key that is
\* not in the dict holds Missing), or the str() of one of these
NoneD == [kind |-> "None", start |-> Missing, end |-> Missing, step |-> Missing]
MissingD == [kind |-> "missing", start |-> Missing, end |-> Missing, step |-> Missing]
Dict(a, b, c) == [kind |-> "dict", start |-> a, end |-> b, step |-> c]
RangeObj(a, b, c) == [kind |-> "Range", start |-> a, end |-> b, step |-> c]
StrD(d) == [d EXCEPT !.kind = "str"]

\* the outcome of a call: st is "ok" or the name of the exception raised
Ok(o) == [st |-> "ok", obj |-> o]
NoObj == [cls |-> "none"]
Raise(e) == [st |-> e, obj |-> NoObj]

\* a validated field: ok is FALSE when pydantic recorded an error for it
\* (exc = "none"), exc names an exception that is not turned into an error
Good(v) == [ok |-> TRUE, v |-> v, exc |-> "none"]
Bad(v) == [ok |-> FALSE, v |-> v, exc |-> "none"]
Thrown(e) == [ok |-> FALSE, v |-> None, exc |-> e]

-----------------------------------------------------------------------------
(* Enums *)

LogicTypes == {"trigger", "skip", "relevant", "constraint"}

GroupTypes == {"group", "repeat"}
GroupTypes_group == "<GroupTypes.group>"
GroupTypes_repeat == "<GroupTypes.repeat>"

QuestionTypes ==
  {"text", "integer", "decimal", "date", "time", "dateTime", "select_one",
   "select_multiple", "select_one_from_file", "select_multiple_from_file",
   "rank", "range", "note", "geopoint", "geotrace", "geoshape", "image",
   "audio", "file", "barcode", "begin", "end", "calculate", "hidden",
   "username", "email", "start", "deviceid"}

\* member name -> member value
AppearanceAttributes ==
  [multiline |-> "multiline", minimal |-> "minimal", quick |-> "quick",
   no_calendar |-> "no-calendar", month_year |-> "month-year", year |-> "year",
   horizontal_compact |-> "horizontal-compact", horizontal |-> "horizontal",
   likert |-> "likert", compact |-> "compact", quickcompact |-> "quickcompact",
   field_list |-> "field-list", label |-> "label",
   list_nolabel |-> "list-nolabel", table_list |-> "table-list",
   signature |-> "signature", draw |-> "draw", map |-> "map",
   quick_map |-> "quick map", minimal_compact |-> "minimal compact",
   image_map |-> "image-map", autocomplete |-> "autocomplete",
   predictivetext |-> "predictivetext", nopredictivetext |-> "nopredictivetext",
   week_number |-> "week-number", distress |-> "distress",
   spinner |-> "spinner", numbers |-> "numbers", calculator |-> "calculator",
   thousands_sep |-> "thousands-sep", no_ticks |-> "no-ticks",
   annotate |-> "annotate", new_rear |-> "new-rear", new_front |-> "new-front",
   hidden |-> "hidden", geocode |-> "geocode", hide_input |-> "hide-input",
   press_to_locate |-> "press-to-locate", spike |-> "spike",
   spike_full_measure |-> "spike-full-measure",
   spike_point_to_point |-> "spike-point-to-point"]

AppearanceNames == DOMAIN AppearanceAttributes
AppearanceValues == {AppearanceAttributes[n] : n \in AppearanceNames}

\* the Enum member AppearanceAttributes.<n> as a Python value
Member(n) == "<AppearanceAttributes." \o n \o ">"

-----------------------------------------------------------------------------
(* Compatibility tables *)

base_appearance_combos ==
  {<<"minimal", "select_one">>, <<"minimal", "select_multiple">>,
   <<"minimal", "barcode">>, <<"minimal", "begin">>,
   <<"minimal_compact", "begin">>, <<"compact", "select_one">>,
   <<"compact", "select_multiple">>, <<"compact", "begin">>,
   <<"horizontal", "select_one">>, <<"horizontal", "select_multiple">>,
   <<"horizontal_compact", "select_one">>,
   <<"horizontal_compact", "select_multiple">>,
   <<"image_map", "select_one">>, <<"image_map", "select_multiple">>,
   <<"autocomplete", "select_one">>, <<"likert", "select_one">>,
   <<"multiline", "text">>, <<"multiline", "image">>, <<"multiline", "file">>,
   <<"predictivetext", "text">>, <<"nopredictivetext", "text">>,
   <<"year", "date">>, <<"month_year", "date">>, <<"week_number", "date">>,
   <<"distress", "integer">>, <<"spinner", "integer">>,
   <<"spinner", "decimal">>, <<"numbers", "integer">>,
   <<"numbers", "decimal">>, <<"calculator", "integer">>,
   <<"calculator", "decimal">>, <<"thousands_sep", "decimal">>,
   <<"no_ticks", "range">>, <<"draw", "image">>, <<"annotate", "image">>,
   <<"signature", "image">>, <<"new_rear", "image">>, <<"new_front", "image">>,
   <<"field_list", "begin">>, <<"table_list", "begin">>,
   <<"geocode", "text">>, <<"hide_input", "geopoint">>,
   <<"press_to_locate", "geopoint">>, <<"press_to_locate", "geotrace">>,
   <<"press_to_locate", "geoshape">>, <<"spike", "image">>,
   <<"spike_full_measure", "image">>, <<"spike_point_to_point", "image">>}

\* the table had the comprehension skipped calculate and range
HiddenOnSome == {<<"hidden", t>> : t \in QuestionTypes \ {"calculate", "range"}}

hidden_appearance_combos == {<<"hidden", t>> : t \in QuestionTypes}

Appearance_Question_Combos == base_appearance_combos \cup hidden_appearance_combos

\* `type` is the validated type string (one word), or None when the type
\* field failed validation (values.get("type"))
check_appearance_question_combo(appearance_attribute, type) ==
  <<appearance_attribute, type>> \in Appearance_Question_Combos

\* a few of the ~900 entries of the list
RESERVED_NAMES == {"A", "BEGIN", "END", "SELECT", "ZONE"}

-----------------------------------------------------------------------------
(* pydantic field validators *)

\* the numbers of the model: int literal, float literal, their str()
Numbers ==
  {<<"<1>", "<1.0>", "1", "1.0">>, <<"<2>", "<2.0>", "2", "2.0">>,
   <<"<3>", "<3.0>", "3", "3.0">>, <<"<5>", "<5.0>", "5", "5.0">>,
   <<"<10>", "<10.0>", "10", "10.0">>}
IntLits == {n[1] : n \in Numbers}
FloatLits == {n[2] : n \in Numbers}
Num(v) == CHOOSE n \in Numbers : v \in {n[1], n[2], n[3], n[4]}
IsNumeric(v) == \E n \in Numbers : v \in {n[1], n[2], n[3], n[4]}

EnumLits == {GroupTypes_group, GroupTypes_repeat} \cup {Member(n) : n \in AppearanceNames}
NonStr == {None, Missing, PyTrue, PyFalse} \cup IntLits \cup FloatLits \cup EnumLits

IsStr(v) == v \notin NonStr
IsStrWords(t) == \A i \in 1..Len(t) : IsStr(t[i])

\* str(v) of a number literal
NumStr(v) == IF v \in IntLits THEN Num(v)[3] ELSE Num(v)[4]

\* pydantic.validators.str_validator: a str, or a number (bool is an int)
\* turned into its str
str_validator(v) ==
  IF IsStr(v) THEN Good(v)
  ELSE IF v \in IntLits \cup FloatLits THEN Good(NumStr(v))
  ELSE IF v = PyTrue THEN Good("True")
  ELSE IF v = PyFalse THEN Good("False")
  ELSE Bad(v)

\* a required str field (Field(...))
RequiredStr(v) == IF v \in {Missing, None} THEN Bad(v) ELSE str_validator(v)

\* Optional[str] = Field(None)
OptionalStr(v) == IF v \in {Missing, None} THEN Good(None) ELSE str_validator(v)

\* pydantic.validators.BOOL_TRUE / BOOL_FALSE, matched after str.lower()
BOOL_TRUE == {"1", "on", "t", "true", "y", "yes", "True", "Yes"}
BOOL_FALSE == {"0", "off", "f", "false", "n", "no", "False", "No"}

\* Optional[bool] = Field(None): pydantic.validators.bool_validator
OptionalBool(v) ==
  IF v \in {Missing, None} THEN Good(None)
  ELSE IF v \in {PyTrue, PyFalse} THEN Good(v)
  ELSE IF v \in BOOL_TRUE THEN Good(PyTrue)
  ELSE IF v \in BOOL_FALSE THEN Good(PyFalse)
  ELSE Bad(v)

\* Optional[float] = Field(None): pydantic.validators.float_validator, float(v)
OptionalFloat(v) ==
  IF v \in {Missing, None} THEN Good(None)
  ELSE IF IsNumeric(v) THEN Good(Num(v)[2])
  ELSE Bad(v)

\* Union[int, float]: int is tried first (int(v)), then float
IntOrFloat(v) ==
  IF ~IsNumeric(v) THEN Bad(v)
  ELSE IF v = Num(v)[4] THEN Good(Num(v)[2])
  ELSE Good(Num(v)[1])

\* List[...] of models: each element goes through V, the model's validate();
\* an exception that is no ValueError, TypeError or AssertionError leaves
ListOf(l, V(_)) ==
  IF l.kind \in {"missing", "None"} THEN Good(NoneL)
  ELSE IF l.kind = "str" THEN Bad(l)
  ELSE LET n == Len(l.elems)
           rs == [i \in 1..n |-> V(l.elems[i])]
           thrown == {i \in 1..n : rs[i].st \notin {"ok", "ValidationError"}}
       IN IF thrown # {}
            THEN Thrown(rs[CHOOSE i \in thrown : \A j \in thrown : i <= j].st)
          ELSE IF \E i \in 1..n : rs[i].st # "ok" THEN Bad(l)
          ELSE Good(L([i \in 1..n |-> rs[i].obj]))

-----------------------------------------------------------------------------
(* Logic, Choice, Range *)

\* the validator had it returned v whatever the type
message_kept(v, type) ==
  IF ~type.ok THEN Thrown("KeyError") ELSE v

\* Logic.validate_message on the coerced message v; type is the outcome of the
\* type field, which values lacks when it failed
validate_message(v, type) ==
  IF ~type.ok THEN Thrown("KeyError")
  ELSE IF type.v # "constraint" THEN Good(None)
  ELSE v

\* Logic(**kw): the fields in order, then validate_message on a passed message
Logic(kw) ==
  LET type == RequiredStr(kw.type)
      expression == RequiredStr(kw.expression)
      coerced == IF kw.message = None THEN Good(None) ELSE str_validator(kw.message)
      message == IF kw.message = Missing THEN Good(None)
                 ELSE IF ~coerced.ok THEN coerced
                 ELSE validate_message(coerced, type)
  IN IF message.exc # "none" THEN Raise(message.exc)
     ELSE IF ~(type.ok /\ expression.ok /\ message.ok) THEN Raise("ValidationError")
     ELSE Ok([cls |-> "Logic", type |-> type.v, expression |-> expression.v,
              message |-> message.v])

\* BaseModel.validate: an instance is taken as it is, a dict is constructed from
Logic_validate(v) == IF v.cls = "Logic" THEN Ok(v) ELSE Logic(v)

Choice(kw) ==
  LET value == RequiredStr(kw.value)
      label == RequiredStr(kw.label)
  IN IF ~(value.ok /\ label.ok) THEN Raise("ValidationError")
     ELSE Ok([cls |-> "Choice", value |-> value.v, label |-> label.v])

Choice_validate(v) == IF v.cls = "Choice" THEN Ok(v) ELSE Choice(v)

\* Optional[Union[Range, Dict[str, Union[int, float]]]]
RangeField(d) ==
  LET a == IntOrFloat(d.start)
      b == IntOrFloat(d.end)
      c == IntOrFloat(d.step)
      num(x, r) == x = Missing \/ r.ok
      val(x, r) == IF x = Missing THEN Missing ELSE r.v
  IN IF d.kind \in {"missing", "None"} THEN Good(NoneD)
     ELSE IF d.kind = "Range" THEN Good(d)
     ELSE IF d.kind = "str" THEN Bad(d)
     ELSE IF a.ok /\ b.ok /\ c.ok THEN Good(RangeObj(a.v, b.v, c.v))
     ELSE IF num(d.start, a) /\ num(d.end, b) /\ num(d.step, c)
       THEN Good(Dict(val(d.start, a), val(d.end, b), val(d.step, c)))
     ELSE Bad(d)

\* Optional[dict]
DictField(d) ==
  IF d.kind \in {"missing", "None"} THEN Good(NoneD)
  ELSE IF d.kind = "dict" THEN Good(d)
  ELSE Bad(d)


-----------------------------------------------------------------------------
(* Question *)

RECURSIVE Join(_)
\* the str the words stand for
Join(words) ==
  IF words = << >> THEN ""
  ELSE IF Len(words) = 1 THEN words[1]
  ELSE words[1] \o " " \o Join(Tail(words))

\* attributes every Enum class has besides its members (hasattr() finds them)
EnumClassAttrs == {"mro", "__members__"}

\* hasattr(QuestionTypes, type): members are looked up by name, and every
\* member of QuestionTypes is named as its value
hasattr_QuestionTypes(type) == type \in QuestionTypes \cup EnumClassAttrs

\* type: Union[QuestionTypes, str] = Field(...)
Question_type(t) ==
  IF t \in {<<Missing>>, <<None>>} THEN Bad(t)
  ELSE IF IsStrWords(t) THEN Good(t)
  ELSE Bad(t)

\* the field without its validator: any string is a name
name_unchecked(v) == RequiredStr(v)

\* name: str = Field(...), then validate_name
validate_name(v) ==
  LET name == RequiredStr(v)
  IN IF name.ok /\ name.v \in RESERVED_NAMES THEN Bad(v) ELSE name

\* Optional[AppearanceAttributes] with use_enum_values: a member or a member's
\* value is accepted and becomes the value
enum_AppearanceAttributes(a) ==
  IF a \in AppearanceValues THEN Good(a)
  ELSE IF \E n \in AppearanceNames : a = Member(n)
    THEN Good(AppearanceAttributes[CHOOSE n \in AppearanceNames : a = Member(n)])
  ELSE Bad(a)

\* the field without its validator: any member goes with any type
appearance_unchecked(a, type) ==
  IF a \in {Missing, None} THEN Good(None) ELSE enum_AppearanceAttributes(a)

\* appearance_attributes, then check_appearance_attributes; type is the result
\* of the type field (values.get("type") is None when it failed)
check_appearance_attributes(a, type) ==
  LET member == enum_AppearanceAttributes(a)
      t == IF type.ok THEN Join(type.v) ELSE None
  IN IF a \in {Missing, None} THEN Good(None)
     ELSE IF ~member.ok THEN member
     ELSE IF ~check_appearance_question_combo(member.v, t) THEN Bad(a)
     ELSE member

IsNoneAt(field, v) == IF field = "choices" THEN v.kind = "None" ELSE v = None
NoneAt(field) == IF field = "choices" THEN NoneL ELSE None

\* check_associated without its else branch: it only requires
require_associated(s, q_type, associated_field, required) ==
  IF s.exc # "none" \/ Join(s.vals.type) \notin q_type \/ ~required THEN s
  ELSE IF associated_field \notin s.have THEN [s EXCEPT !.exc = "KeyError"]
  ELSE IF IsNoneAt(associated_field, s.vals[associated_field])
    THEN [s EXCEPT !.exc = "ValueError"]
  ELSE s

\* check_associated without its `required` test: it only clears
clear_associated(s, q_type, associated_field, required) ==
  IF s.exc # "none" \/ Join(s.vals.type) \in q_type THEN s
  ELSE [s EXCEPT !.vals[associated_field] = NoneAt(associated_field),
                 !.have = @ \cup {associated_field}]

\* validate_by_type.check_associated, on s = [exc, vals, have]: vals are the
\* values, have the keys values has (a field that failed validation has none)
check_associated(s, q_type, associated_field, required) ==
  IF s.exc # "none" THEN s
  ELSE IF Join(s.vals.type) \in q_type
    THEN IF ~required THEN s
         ELSE IF associated_field \notin s.have THEN [s EXCEPT !.exc = "KeyError"]
         ELSE IF IsNoneAt(associated_field, s.vals[associated_field])
           THEN [s EXCEPT !.exc = "ValueError"]
         ELSE s
  ELSE [s EXCEPT !.vals[associated_field] = NoneAt(associated_field),
                 !.have = @ \cup {associated_field}]

\* validate_by_type, the `if type == "range"` block
range_parameters(s) ==
  IF s.exc # "none" \/ Join(s.vals.type) # "range" THEN s
  ELSE IF "range" \notin s.have THEN [s EXCEPT !.exc = "KeyError"]
  ELSE IF s.vals.range.kind = "None" THEN [s EXCEPT !.exc = "ValueError"]
  ELSE IF "parameters" \notin s.have THEN [s EXCEPT !.exc = "KeyError"]
  ELSE IF s.vals.range.kind # "Range" THEN [s EXCEPT !.exc = "AttributeError"]
  ELSE [s EXCEPT !.vals.parameters =
          Dict(s.vals.range.start, s.vals.range.end, s.vals.range.step)]

SelectTypes == {"rank", "select_one", "select_multiple"}
GeoTypes == {"geopoint", "geotrace", "geoshape"}
FromFileTypes == {"select_one_from_file", "select_multiple_from_file"}

\* the root validator; it runs whatever the fields' errors (skip_on_failure
\* is not set)
validate_by_type(vals, have) ==
  LET s0 == [exc |-> IF "type" \notin have THEN "KeyError"
                     ELSE IF ~hasattr_QuestionTypes(Join(vals.type)) THEN "ValueError"
                     ELSE "none",
             vals |-> vals, have |-> have]
      s1 == check_associated(s0, {"calculate"}, "calculation", TRUE)
      s2 == check_associated(s1, SelectTypes, "choices", TRUE)
      s3 == check_associated(s2, SelectTypes, "allow_other", FALSE)
      s4 == check_associated(s3, GeoTypes, "accuracyThreshold", FALSE)
      s5 == check_associated(s4, FromFileTypes, "file", TRUE)
  IN range_parameters(s5)

\* the keys of values after the fields were validated: a field that failed has
\* none
Have(f) == {k \in DOMAIN f : f[k].ok}
Values(f) == [k \in DOMAIN f |-> f[k].v]

\* the fields of Question, each validated, in their order
Question_fields(kw) ==
       [type |-> Question_type(kw.type),
            name |-> validate_name(kw.name),
            label |-> RequiredStr(kw.label),
            required |-> OptionalBool(kw.required),
            default |-> OptionalStr(kw.default),
            hint |-> OptionalStr(kw.hint),
            logics |-> ListOf(kw.logics, Logic_validate),
            calculation |-> OptionalStr(kw.calculation),
            range |-> RangeField(kw.range),
            accuracyThreshold |-> OptionalFloat(kw.accuracyThreshold),
            choices |-> ListOf(kw.choices, Choice_validate),
            allow_other |-> OptionalBool(kw.allow_other),
            file |-> OptionalStr(kw.file),
            parameters |-> DictField(kw.parameters),
            appearance_attributes |->
              check_appearance_attributes(kw.appearance_attributes,
                                          Question_type(kw.type))]

\* what Question(**kw) gives for the validated fields f and the outcome root
\* of the root validator: an exception pydantic does not collect leaves as it
\* is, collected errors are one ValidationError
Question_init(f, root) ==
  IF f.logics.exc # "none" THEN Raise(f.logics.exc)
  ELSE IF root.exc \in {"KeyError", "AttributeError"} THEN Raise(root.exc)
  ELSE IF Have(f) # DOMAIN f \/ root.exc = "ValueError" THEN Raise("ValidationError")
  ELSE Ok([k \in DOMAIN f \cup {"cls"} |->
             IF k = "cls" THEN "Question" ELSE root.vals[k]])

Question_validate_model(f) == Question_init(f, validate_by_type(Values(f), Have(f)))

\* Question(**kw): pydantic's validate_model over the fields in their order,
\* then the root validator
Question(kw) == Question_validate_model(Question_fields(kw))


-----------------------------------------------------------------------------
(* QuestionGroup, Survey *)

\* hasattr(GroupTypes, group_type); a group_type that is no str is a TypeError
hasattr_GroupTypes(group_type) == group_type \in GroupTypes \cup EnumClassAttrs

\* type: str = Field(GroupTypes.group): the default is the Enum member, and
\* pydantic does not validate a default (Config.validate_all is not set)
QuestionGroup_type(t) ==
  IF t = <<Missing>> THEN Good(<<GroupTypes_group>>)
  ELSE IF t = <<None>> THEN Bad(t)
  ELSE IF IsStrWords(t) THEN Good(t)
  ELSE Bad(t)

\* repeat_count: Optional[Union[int, str]]: int(v) is tried first
repeat_count_field(v) ==
  IF v \in {Missing, None} THEN Good(None)
  ELSE IF IsNumeric(v) /\ v # Num(v)[4] THEN Good(Num(v)[1])
  ELSE str_validator(v)

\* the root validator of QuestionGroup, on the values and the keys they have
validate_repeat(vals, have) ==
  LET s == [exc |-> "none", vals |-> vals, have |-> have]
  IN IF "type" \notin have THEN [s EXCEPT !.exc = "KeyError"]
     ELSE IF ~IsStrWords(vals.type) THEN [s EXCEPT !.exc = "TypeError"]
     ELSE IF ~hasattr_GroupTypes(Join(vals.type)) THEN [s EXCEPT !.exc = "ValueError"]
     ELSE IF "repeat_count" \notin have THEN [s EXCEPT !.exc = "KeyError"]
     ELSE IF Join(vals.type) = "repeat"
       THEN IF vals.repeat_count = None THEN [s EXCEPT !.exc = "ValueError"] ELSE s
     ELSE IF vals.repeat_count # None
       THEN [s EXCEPT !.vals.type = <<GroupTypes_repeat>>]
     ELSE s

\* dict(v) as the keyword arguments of a model with the fields of `defaults`:
\* keys the model does not have are ignored (Extra.ignore)
AsKw(v, defaults) ==
  [k \in DOMAIN defaults |->
     IF k = "cls" THEN "dict" ELSE IF k \in DOMAIN v THEN v[k] ELSE defaults[k]]

\* the keyword arguments of a call that passes nothing: the fields of the
\* models, each Missing
QuestionKw ==
  [cls |-> "dict", type |-> <<Missing>>, name |-> Missing, label |-> Missing,
   required |-> Missing, default |-> Missing, hint |-> Missing,
   logics |-> MissingL, calculation |-> Missing, range |-> MissingD,
   accuracyThreshold |-> Missing, choices |-> MissingL, allow_other |-> Missing,
   file |-> Missing, parameters |-> MissingD, appearance_attributes |-> Missing]

QuestionGroupKw ==
  [cls |-> "dict", type |-> <<Missing>>, name |-> Missing, label |-> Missing,
   items |-> MissingL, logics |-> MissingL, repeat_count |-> Missing]

SurveyKw == [cls |-> "dict", name |-> Missing, label |-> Missing, items |-> MissingL]

RECURSIVE QuestionGroup(_), Item_validate(_)

\* items: List[Union[Question, QuestionGroup]]
items_field(items) ==
  IF items.kind = "missing" THEN Good(L(<< >>))
  ELSE IF items.kind = "None" THEN Bad(items)
  ELSE ListOf(items, Item_validate)

\* the fields of QuestionGroup, each validated, in their order
QuestionGroup_fields(kw) ==
  [type |-> QuestionGroup_type(kw.type),
   name |-> RequiredStr(kw.name),
   label |-> RequiredStr(kw.label),
   items |-> items_field(kw.items),
   logics |-> ListOf(kw.logics, Logic_validate),
   repeat_count |-> repeat_count_field(kw.repeat_count)]

\* what QuestionGroup(**kw) gives for the validated fields f and the outcome
\* root of the root validator (its TypeError is collected by pydantic)
QuestionGroup_init(f, root) ==
  IF f.items.exc # "none" THEN Raise(f.items.exc)
  ELSE IF f.logics.exc # "none" THEN Raise(f.logics.exc)
  ELSE IF root.exc = "KeyError" THEN Raise(root.exc)
  ELSE IF Have(f) # DOMAIN f \/ root.exc # "none" THEN Raise("ValidationError")
  ELSE Ok([k \in DOMAIN f \cup {"cls"} |->
             IF k = "cls" THEN "QuestionGroup" ELSE root.vals[k]])

QuestionGroup_validate_model(f) ==
  QuestionGroup_init(f, validate_repeat(Values(f), Have(f)))

\* QuestionGroup(**kw)
QuestionGroup(kw) == QuestionGroup_validate_model(QuestionGroup_fields(kw))

\* Union[A, B]: the first of the two that is no validation error
Union(a, b) == IF a.st # "ValidationError" THEN a ELSE b

\* an element of List[Union[Question, QuestionGroup]]: Question.validate(v) is
\* tried first, QuestionGroup.validate(v) when that is a validation error.
\* validate() takes an instance of the class as it is and constructs from
\* dict(v) otherwise, and dict() of a model instance is its fields.
Item_validate(v) ==
  Union(IF v.cls = "Question" THEN Ok(v) ELSE Question(AsKw(v, QuestionKw)),
        IF v.cls = "QuestionGroup" THEN Ok(v)
        ELSE QuestionGroup(AsKw(v, QuestionGroupKw)))

\* Survey(**kw)
Survey_init(name, label, items) ==
  IF items.exc # "none" THEN Raise(items.exc)
  ELSE IF ~(name.ok /\ label.ok /\ items.ok) THEN Raise("ValidationError")
  ELSE Ok([cls |-> "Survey", name |-> name.v, label |-> label.v, items |-> items.v])

Survey(kw) ==
  Survey_init(RequiredStr(kw.name), RequiredStr(kw.label), items_field(kw.items))

RECURSIVE dict(_)
\* BaseModel.dict(): the fields, with every nested model turned into its dict
dict(o) ==
  LET sub(l) == IF l.kind = "list"
                  THEN L([i \in 1..Len(l.elems) |-> dict(l.elems[i])]) ELSE l
  IN [k \in DOMAIN o |->
        IF k = "cls" THEN "dict"
        ELSE IF k \in {"items", "logics", "choices"} THEN sub(o[k])
        ELSE IF k = "range" /\ o[k].kind = "Range" THEN [o[k] EXCEPT !.kind = "dict"]
        ELSE o[k]]

\* BaseModel.__eq__: the dicts are compared
Eq(a, b) == dict(a) = dict(b)

\* Survey.parse_obj(obj)
Survey_parse_obj(obj) == Survey(AsKw(obj, SurveyKw))

-----------------------------------------------------------------------------
(* DataFrames.  A row is a dict (a function from keys to cells).  In a     *)
(* DataFrame every row has every column; a cell without a value (None or   *)
(* NaN) holds the None of its column's kind.                               *)

ListCols == {"logics", "choices", "items"}
DictCols == {"range", "parameters"}

NoneCell(k) ==
  IF k = "type" THEN <<None>>
  ELSE IF k \in ListCols THEN NoneL
  ELSE IF k \in DictCols THEN NoneD
  ELSE None

IsNoneCell(k, v) ==
  IF k = "type" THEN v = <<None>>
  ELSE IF k \in ListCols \cup DictCols THEN v.kind = "None"
  ELSE v = None

Without(d, keys) == [k \in DOMAIN d \ keys |-> d[k]]
Update(d, k, v) == [j \in DOMAIN d \cup {k} |-> IF j = k THEN v ELSE d[j]]

\* the columns whose cells are a str, a number, a bool or nothing
IsScalarCol(k) == k \notin ListCols \cup DictCols \cup {"type"}

\* pd.DataFrame(rows): the columns are the keys the rows use, a row without
\* the key holds NaN, and a column of numbers in which a cell is NaN, None or
\* a float is a float64 column
DataFrame(rows) ==
  LET columns == UNION {DOMAIN rows[i] : i \in 1..Len(rows)}
      cell(i, k) == IF k \in DOMAIN rows[i] THEN rows[i][k] ELSE NoneCell(k)
      cells(k) == {cell(i, k) : i \in 1..Len(rows)}
      float64(k) == /\ IsScalarCol(k)
                    /\ cells(k) \subseteq IntLits \cup FloatLits \cup {None}
                    /\ cells(k) \cap (FloatLits \cup {None}) # {}
  IN [columns |-> columns,
      rows |-> [i \in 1..Len(rows) |->
                  [k \in columns |->
                     IF float64(k) /\ cell(i, k) # None THEN Num(cell(i, k))[2]
                     ELSE cell(i, k)]]]

\* df.to_dict("records")
to_dict_records(df) == df.rows

-----------------------------------------------------------------------------
(* Tree -> table *)

\* the rows items_to_dfs appends for a QuestionGroup.  item_dict is ONE dict
\* object: survey_rows.append(item_dict) stores a reference to it, and the
\* later item_dict.update({"type": f"end {type}"}) changes the dict the first
\* append stored as well.  The DataFrame is built after the loop.
group_rows(item_dict, type, inner) ==
  LET begun == Update(Without(item_dict, {"items"}), "type", <<"begin">> \o type)
      ended == Update(begun, "type", <<"end">> \o type)
      first == ended
  IN <<first>> \o inner \o <<ended>>

\* the rows for a rank, select_one or select_multiple Question
choice_question_row(item_dict, type, list_name) ==
  Update(Without(item_dict, {"choices"}), "type", type \o <<list_name>>)

choice_rows(item, list_name) ==
  IF item.choices.kind = "None" THEN << >>
  ELSE [i \in 1..Len(item.choices.elems) |->
          [list_name |-> list_name, name |-> item.choices.elems[i].value,
           label |-> item.choices.elems[i].label]]

\* the loop had it worked on the item's own storage (item.__dict__)
dict_shared(item) == [d |-> Without(dict(item), {"cls"}), own |-> FALSE]

\* item_dict = item.dict(): a new dict of new lists and dicts, so what the loop
\* deletes from it and writes to it does not reach item
item_dict_of(item) == [d |-> Without(dict(item), {"cls"}), own |-> TRUE]

RECURSIVE items_after(_)
\* the items as they are when items_to_dfs returns: the loop changes
\* item_dict only (del item_dict["items"], del item_dict["choices"], the
\* updates of "type") and reads item.items, item.name and item.choices
items_after(items) ==
  IF items = << >> THEN << >>
  ELSE LET item == Head(items)
           b == item_dict_of(item)
           type == b.d.type
           d == IF Join(type) \in {"repeat", "group"}
                  THEN Update(Without(b.d, {"items"}), "type", <<"end">> \o type)
                ELSE IF Join(type) \in SelectTypes
                  THEN Update(Without(b.d, {"choices"}), "type", type \o <<item.name>>)
                ELSE b.d
           inner == IF Join(type) \in {"repeat", "group"}
                      THEN [item EXCEPT !.items.elems = items_after(@)]
                    ELSE item
       IN <<(IF b.own THEN inner ELSE Update(d, "cls", item.cls))>>
            \o items_after(Tail(items))

\* the Survey when get_dfs returns
Survey_after_get_dfs(self) ==
  IF self.items.kind = "None" THEN self
  ELSE [self EXCEPT !.items.elems = items_after(@)]

RECURSIVE items_to_rows(_)
\* the loop of items_to_dfs over a list of items: [survey, choices], the two
\* lists of rows
items_to_rows(items) ==
  IF items = << >> THEN [survey |-> << >>, choices |-> << >>]
  ELSE LET item == Head(items)
           item_dict == Without(dict(item), {"cls"})
           type == item_dict.type
           rest == items_to_rows(Tail(items))
           sub == items_to_rows(item.items.elems)
           _dfs == [survey |-> DataFrame(sub.survey), choices |-> DataFrame(sub.choices)]
       IN IF Join(type) \in {"repeat", "group"}
            THEN [survey |-> group_rows(item_dict, type, to_dict_records(_dfs.survey))
                               \o rest.survey,
                  choices |-> to_dict_records(_dfs.choices) \o rest.choices]
          ELSE IF Join(type) \in SelectTypes
            THEN [survey |-> <<choice_question_row(item_dict, type, item.name)>>
                               \o rest.survey,
                  choices |-> choice_rows(item, item.name) \o rest.choices]
          ELSE [survey |-> <<item_dict>> \o rest.survey, choices |-> rest.choices]

\* items_to_dfs(items): {"survey": df, "choices": df}
items_to_dfs(items) ==
  IF items.kind = "None" THEN [st |-> "ValueError"]
  ELSE LET rows == items_to_rows(items.elems)
       IN [st |-> "ok", survey |-> DataFrame(rows.survey),
           choices |-> DataFrame(rows.choices)]

\* str(v) of a cell that is no list and no dict
Str(v) ==
  IF v = PyTrue THEN "True"
  ELSE IF v = PyFalse THEN "False"
  ELSE IF v \in IntLits \cup FloatLits THEN NumStr(v)
  ELSE IF v = GroupTypes_group THEN "GroupTypes.group"
  ELSE IF v = GroupTypes_repeat THEN "GroupTypes.repeat"
  ELSE v

\* .replace({"": None, True: "yes", False: "no"}) on one cell
replace_tokens(v) ==
  IF v = "" THEN None
  ELSE IF v = PyTrue THEN "yes"
  ELSE IF v = PyFalse THEN "no"
  ELSE v

\* prep_for_excel on one cell: fillna(""), astype(str), "[]" and "{}" to "",
\* then the replace above
prep_cell(k, v) ==
  IF IsNoneCell(k, v) THEN NoneCell(k)
  ELSE IF k = "type"
    THEN IF v = << >> THEN <<None>> ELSE [i \in 1..Len(v) |-> Str(v[i])]
  ELSE IF k \in ListCols
    THEN IF v.kind = "list" /\ v.elems = << >> THEN NoneL ELSE StrL(v.elems)
  ELSE IF k \in DictCols
    THEN IF v.kind = "dict" /\ {v.start, v.end, v.step} = {Missing} THEN NoneD
         ELSE StrD(v)
  ELSE IF Str(v) \in {"[]", "{}"} THEN None
  ELSE replace_tokens(Str(v))

\* prep_for_excel(df), ending with dropna(axis=1, how="all")
prep_for_excel(df) ==
  LET cells == [i \in 1..Len(df.rows) |->
                  [k \in df.columns |-> prep_cell(k, df.rows[i][k])]]
      kept == {k \in df.columns :
                 \E i \in 1..Len(cells) : ~IsNoneCell(k, cells[i][k])}
  IN [columns |-> kept,
      rows |-> [i \in 1..Len(cells) |-> [k \in kept |-> cells[i][k]]]]

\* Survey.get_dfs(): sheet_name -> df
Survey_get_dfs(self) ==
  LET settings_df == DataFrame(<<[form_id |-> self.name, form_title |-> self.label]>>)
      df_dict == items_to_dfs(self.items)
  IN IF df_dict.st # "ok" THEN df_dict
     ELSE [st |-> "ok",
           survey |-> prep_for_excel(df_dict.survey),
           choices |-> prep_for_excel(df_dict.choices),
           settings |-> prep_for_excel(settings_df)]

-----------------------------------------------------------------------------
(* Table -> tree *)

\* the strings pandas reads as bools
TrueStrings == {"True", "TRUE", "true"}
FalseStrings == {"False", "FALSE", "false"}

\* pd.read_excel of a sheet df.to_excel wrote: a cell without a value is NaN;
\* the parser turns a column whose strings are all numerals into numbers
\* (int64 when every cell is an integer numeral, float64 otherwise) and a
\* column whose strings are all True/False into bools
read_excel(df) ==
  LET cells(k) == {df.rows[i][k] : i \in 1..Len(df.rows)}
      numerals(k) == /\ IsScalarCol(k)
                     /\ cells(k) # {None}
                     /\ \A v \in cells(k) \ {None} : IsStr(v) /\ IsNumeric(v)
      int64(k) == \A v \in cells(k) : v # None /\ v = Num(v)[3]
      bools(k) == /\ IsScalarCol(k)
                  /\ cells(k) # {None}
                  /\ cells(k) \ {None} \subseteq TrueStrings \cup FalseStrings
      parse(k, v) ==
        IF ~IsScalarCol(k) \/ v = None THEN v
        ELSE IF numerals(k) THEN (IF int64(k) THEN Num(v)[1] ELSE Num(v)[2])
        ELSE IF bools(k) THEN (IF v \in TrueStrings THEN PyTrue ELSE PyFalse)
        ELSE v
  IN [columns |-> df.columns,
      rows |-> [i \in 1..Len(df.rows) |->
                  [k \in df.columns |-> parse(k, df.rows[i][k])]]]

\* drop_nan_dict(df): the rows that have a value, each without its NaN cells
drop_nan_dict(df) ==
  LET valued(r) == {k \in DOMAIN r : ~IsNoneCell(k, r[k])}
      some(r) == valued(r) # {}
      rows == SelectSeq(df.rows, some)
  IN [i \in 1..Len(rows) |-> [k \in valued(rows[i]) |-> rows[i][k]]]

ChoiceDefaults == [cls |-> "dict", value |-> Missing, label |-> Missing]

\* get_choice_dict(choices_df): list_name -> the Choices of its rows, in row
\* order; groupby("list_name") is a KeyError on a sheet without that column
get_choice_dict(choices_df) ==
  LET names == {choices_df.rows[i].list_name : i \in 1..Len(choices_df.rows)} \ {None}
      renamed(r) == [k \in (DOMAIN r \ {"name", "list_name"})
                          \cup (IF "name" \in DOMAIN r THEN {"value"} ELSE {}) |->
                       IF k = "value" THEN r.name ELSE r[k]]
      group(n) ==
        LET of_n(r) == r.list_name = n
            rows == SelectSeq(choices_df.rows, of_n)
            df == [columns |-> {"value", "label"} \cap
                                 {IF k = "name" THEN "value" ELSE k : k \in choices_df.columns},
                   rows |-> [i \in 1..Len(rows) |-> renamed(rows[i])]]
            dicts == drop_nan_dict(df)
        IN [i \in 1..Len(dicts) |-> Choice(AsKw(dicts[i], ChoiceDefaults))]
      dict_ == [n \in names |-> group(n)]
  IN IF "list_name" \notin choices_df.columns THEN [st |-> "KeyError"]
     ELSE IF \E n \in names : \E i \in 1..Len(dict_[n]) : dict_[n][i].st # "ok"
       THEN [st |-> "ValidationError"]
     ELSE [st |-> "ok",
           dict |-> [n \in names |-> [i \in 1..Len(dict_[n]) |-> dict_[n][i].obj]]]

\* the first words of the model's type strings that start with s
Prefixed(s) ==
  CASE s = "rank" -> {"rank"}
    [] s = "select_one" -> {"select_one", "select_one_from_file"}
    [] s = "select_multiple" -> {"select_multiple", "select_multiple_from_file"}
    [] s = "begin" -> {"begin"}
    [] s = "end" -> {"end"}

\* type.startswith(s)
startswith(type, s) == type # << >> /\ type[1] \in Prefixed(s)

\* "from_file" in type
has_from_file(type) == \E i \in 1..Len(type) : type[i] \in FromFileTypes

\* link_choices(survey_row, choice_dict): the row, or the exception raised
link_choices(survey_row, choice_dict) ==
  LET type == survey_row.type
      type_with_choices == \E s \in SelectTypes : startswith(type, s)
      not_from_file == ~has_from_file(type)
  IN IF "type" \notin DOMAIN survey_row THEN [st |-> "KeyError"]
     ELSE IF ~(type_with_choices /\ not_from_file) THEN [st |-> "ok", row |-> survey_row]
     ELSE IF Len(type) # 2 THEN [st |-> "ValueError"]   \* type_root, group_name = type.split()
     ELSE [st |-> "ok",
           row |-> Update(Update(survey_row, "type", <<type[1]>>), "choices",
                          IF type[2] \in DOMAIN choice_dict
                            THEN L(choice_dict[type[2]]) ELSE L(<< >>))]

\* Question.parse_obj(row)
Question_parse_obj(row) == Question(AsKw(row, QuestionKw))

\* one iteration of the loop of group_items, on s = [st, groups, current_group]
\* and a linked row.  current_group is the place in groups of the object the
\* Python variable refers to (0 for None): every group is appended to groups.
\* the `begin` branch, new being what QuestionGroup(...) gave
begin_group(s, new) ==
  IF new.st # "ok" THEN [s EXCEPT !.st = new.st]
  ELSE [s EXCEPT !.groups = Append(@, new.obj), !.current_group = Len(s.groups) + 1]

\* the `else` branch had it appended to groups whatever current_group is
append_outer(s, q) ==
  IF q.st # "ok" THEN [s EXCEPT !.st = q.st]
  ELSE [s EXCEPT !.groups = Append(@, q.obj)]

\* the `else` branch, q being what Question.parse_obj(row) gave
append_question(s, q) ==
  IF q.st # "ok" THEN [s EXCEPT !.st = q.st]
  ELSE IF s.current_group # 0
    THEN [s EXCEPT !.groups[s.current_group].items.elems = Append(@, q.obj)]
  ELSE [s EXCEPT !.groups = Append(@, q.obj)]

group_items_step(s, row) ==
  IF startswith(row.type, "begin")
    THEN IF "name" \notin DOMAIN row THEN [s EXCEPT !.st = "KeyError"]
         ELSE begin_group(s, QuestionGroup(
                [QuestionGroupKw EXCEPT
                   !.name = row.name,
                   !.type = Tail(row.type),     \* type[6:]
                   !.label = IF "label" \in DOMAIN row THEN row.label ELSE None,
                   !.items = L(<< >>)]))
  ELSE IF startswith(row.type, "end") /\ s.current_group # 0
    THEN [s EXCEPT !.current_group = 0]
  ELSE append_question(s, Question_parse_obj(row))

\* the row the generator yields, handed to the loop
step_linked(s, linked) ==
  IF linked.st # "ok" THEN [s EXCEPT !.st = linked.st]
  ELSE group_items_step(s, linked.row)

next_row(s) == step_linked(s, link_choices(s.rows[s.i], s.choice_dict))

\* the end of get_survey_args, and Survey.parse_obj of what it returns
parse_settings(settings_df, items_grouped) ==
  IF settings_df.rows = << >> THEN Raise("IndexError")
  ELSE IF {"form_id", "form_title"} \subseteq settings_df.columns
    THEN Survey_parse_obj([name |-> settings_df.rows[1].form_id,
                           label |-> settings_df.rows[1].form_title,
                           items |-> L(items_grouped)])
  ELSE Raise("KeyError")

-----------------------------------------------------------------------------
(* The calls a caller makes: keyword arguments drawn from bounded sets *)

\* the longest list of choices a caller passes
MaxChoices == 2

RECURSIVE SeqsUpTo(_, _)
SeqsUpTo(S, n) ==
  IF n = 0 THEN {<< >>}
  ELSE SeqsUpTo(S, n - 1) \cup
       {Append(q, x) : q \in {r \in SeqsUpTo(S, n - 1) : Len(r) = n - 1}, x \in S}

ChoiceKw(v, l) == [cls |-> "dict", value |-> v, label |-> l]
ChoiceObj(v, l) == [cls |-> "Choice", value |-> v, label |-> l]
LogicKw(t, e, m) == [cls |-> "dict", type |-> t, expression |-> e, message |-> m]

ChoicePool == {ChoiceObj("r", "Red"), ChoiceObj("b", "Blue")}
ChoiceLists == {L(q) : q \in SeqsUpTo(ChoicePool, MaxChoices)}

TypeInputs ==
  {<<t>> : t \in QuestionTypes \cup {"bogus", "mro", "group"}}
    \cup {<<Missing>>, <<None>>}

AppearanceInputs ==
  {Missing, None, "bogus"} \cup AppearanceValues \cup AppearanceNames
    \cup {Member(n) : n \in AppearanceNames}

\* every type with every appearance, with all or none of the type-conditional
\* fields passed
AppearanceSweep ==
  {[QuestionKw EXCEPT !.type = t, !.name = "q1", !.label = "Q 1",
                      !.appearance_attributes = a,
                      !.calculation = IF all THEN "a+b" ELSE Missing,
                      !.choices = IF all THEN L(<<ChoiceObj("r", "Red")>>) ELSE MissingL,
                      !.file = IF all THEN "choices.csv" ELSE Missing,
                      !.range = IF all THEN RangeObj("<1>", "<10>", "<1>") ELSE MissingD]
     : t \in TypeInputs, a \in AppearanceInputs, all \in BOOLEAN}

\* every type with every combination of the type-conditional fields
FieldSweep ==
  {[QuestionKw EXCEPT !.type = t, !.name = "q1", !.label = "Q 1",
                      !.calculation = c, !.choices = ch, !.file = f,
                      !.range = r, !.accuracyThreshold = acc,
                      !.allow_other = ao]
     : t \in TypeInputs, c \in {Missing, "a+b"},
       ch \in {MissingL, L(<< >>), L(<<ChoiceObj("r", "Red")>>),
               StrL(<<ChoiceObj("r", "Red")>>)},
       f \in {Missing, "choices.csv"},
       r \in {MissingD, RangeObj("<1>", "<10>", "<1>"),
              Dict("<1>", "<10>", Missing), StrD(RangeObj("<1>", "<10>", "<1>"))},
       acc \in {Missing, "<5.0>"}, ao \in {Missing, PyTrue}}

\* the choice-bearing types with every list of choices
ChoiceSweep ==
  {[QuestionKw EXCEPT !.type = <<t>>, !.name = n, !.label = "Q 1", !.choices = ch]
     : t \in SelectTypes \cup {"text"}, n \in {"q1", "color", "SELECT", "select"},
       ch \in ChoiceLists \cup {L(<<ChoiceKw("r", "Red"), ChoiceKw("b", Missing)>>)}}

\* the fields every type has
CommonSweep ==
  {[QuestionKw EXCEPT !.type = t, !.name = n, !.label = l, !.required = rq,
                      !.logics = lg, !.parameters = pm,
                      !.appearance_attributes = a]
     : t \in {<<"text">>, <<"note">>, <<Missing>>}, n \in {"q1", Missing, "A"},
       l \in {"Q 1", "", Missing, None}, rq \in {Missing, PyTrue, PyFalse, "yes", "bogus"},
       lg \in {MissingL, L(<< >>), L(<<LogicKw("skip", "${q1} = 2", Missing)>>),
               L(<<LogicKw("constraint", ". > 0", "positive")>>),
               L(<<LogicKw(Missing, ". > 0", "positive")>>),
               StrL(<<LogicKw("skip", "${q1} = 2", Missing)>>)},
       pm \in {MissingD, Dict("<1>", Missing, Missing)},
       a \in {Missing, "hidden"}}

QuestionArgs == AppearanceSweep \cup FieldSweep \cup ChoiceSweep \cup CommonSweep

\* the library is used without the chat page
NoSession == [run |-> [kind |-> "None", status |-> None], retry_error |-> 0,
              thread |-> None]
NoPage == [prompt |-> None, errors |-> 0]

NoDfs == [st |-> "none"]
NoScan == [st |-> "none", rows |-> << >>, choice_dict |-> << >>, i |-> 1,
           groups |-> << >>, current_group |-> 0]

\* a caller about to construct a Question
InitQuestion ==
  /\ pc = "call"
  /\ args \in QuestionArgs
  /\ result = Raise("none")
  /\ dfs = NoDfs
  /\ scan = NoScan
  /\ parsed = Raise("none")
  /\ reparsed = Raise("none")
  /\ session_state = NoSession
  /\ page = NoPage

\* Question(**args)
NewQuestion ==
  /\ pc = "call"
  /\ pc' = "done"
  /\ result' = Question(args)
  /\ UNCHANGED <<args, dfs, scan, parsed, reparsed, session_state, page>>

NextQuestion == NewQuestion

SpecQuestion == InitQuestion /\ [][NextQuestion]_vars

\* what a caller passes to Logic
LogicArgs ==
  {LogicKw(t, e, m)
     : t \in LogicTypes \cup {Missing, None, "bogus", "Constraint", "", "<1>",
                              PyTrue, GroupTypes_group},
       e \in {Missing, None, ". > 0", "${q1} = 2", "", "<1>"},
       m \in {Missing, None, "positive", "", "<5>", PyFalse, GroupTypes_group}}

\* a caller about to construct a Logic
InitLogic ==
  /\ pc = "call"
  /\ args \in LogicArgs
  /\ result = Raise("none")
  /\ dfs = NoDfs
  /\ scan = NoScan
  /\ parsed = Raise("none")
  /\ reparsed = Raise("none")
  /\ session_state = NoSession
  /\ page = NoPage

\* Logic(**args)
NewLogic ==
  /\ pc = "call"
  /\ pc' = "done"
  /\ result' = Logic(args)
  /\ UNCHANGED <<args, dfs, scan, parsed, reparsed, session_state, page>>

NextLogic == NewLogic

SpecLogic == InitLogic /\ [][NextLogic]_vars

\* items a caller passes to QuestionGroup: Questions constructed before
ItemLists ==
  {MissingL, L(<< >>),
   L(<<Question([QuestionKw EXCEPT !.type = <<"text">>, !.name = "q1",
                                   !.label = "Q 1"]).obj>>),
   L(<<Question([QuestionKw EXCEPT !.type = <<"text">>, !.name = "q1",
                                   !.label = "Q 1"]).obj,
       Question([QuestionKw EXCEPT !.type = <<"select_one">>, !.name = "color",
                                   !.label = "Color",
                                   !.choices = L(<<ChoiceObj("r", "Red")>>)]).obj>>)}

QuestionGroupArgs ==
  {[QuestionGroupKw EXCEPT !.type = t, !.name = n, !.label = l, !.items = it,
                           !.repeat_count = rc]
     : t \in {<<Missing>>, <<None>>, <<"group">>, <<"repeat">>, <<"field-list">>,
              <<"mro">>, <<GroupTypes_group>>, <<GroupTypes_repeat>>},
       n \in {"group_1", Missing}, l \in {"Group 1", Missing}, it \in ItemLists,
       rc \in {Missing, None, "<2>", "3", "${n}"}}

\* a caller about to construct a QuestionGroup
InitGroup ==
  /\ pc = "call"
  /\ args \in QuestionGroupArgs
  /\ result = Raise("none")
  /\ dfs = NoDfs
  /\ scan = NoScan
  /\ parsed = Raise("none")
  /\ reparsed = Raise("none")
  /\ session_state = NoSession
  /\ page = NoPage

\* QuestionGroup(**args)
NewQuestionGroup ==
  /\ pc = "call"
  /\ pc' = "done"
  /\ result' = QuestionGroup(args)
  /\ UNCHANGED <<args, dfs, scan, parsed, reparsed, session_state, page>>

NextGroup == NewQuestionGroup

SpecGroup == InitGroup /\ [][NextGroup]_vars


-----------------------------------------------------------------------------
(* A caller that builds a Survey from constructor calls, as test_survey     *)
(* does, and takes it through the dict and the Excel round trip             *)

\* the most Questions and QuestionGroups in the Survey a caller builds
MaxNodes == 3

\* the Question(...) calls of the caller, by the variable the caller keeps
\* the Question in
QuestionCall ==
  [q1 |-> [QuestionKw EXCEPT !.type = <<"text">>, !.name = "q1", !.label = "Q 1",
                             !.required = PyTrue],
   color |-> [QuestionKw EXCEPT !.type = <<"select_one">>, !.name = "color",
                                !.label = "Color",
                                !.choices = L(<<ChoiceObj("r", "Red"),
                                                ChoiceObj("b", "Blue")>>)],
   color_2 |-> [QuestionKw EXCEPT !.type = <<"select_one">>, !.name = "color",
                                  !.label = "Color",
                                  !.choices = L(<<ChoiceObj("b", "Blue")>>)],
   empty |-> [QuestionKw EXCEPT !.type = <<"select_multiple">>, !.name = "empty",
                                !.label = "Empty", !.choices = L(<< >>)],
   fin |-> [QuestionKw EXCEPT !.type = <<"end">>, !.name = "fin", !.label = "End"]]

\* the QuestionGroup(...) calls of the caller, before their items
QuestionGroupCall ==
  [untyped |-> [QuestionGroupKw EXCEPT !.name = "group_1", !.label = "Group 1"],
   group |-> [QuestionGroupKw EXCEPT !.name = "group_1", !.label = "Group 1",
                                     !.type = <<"group">>],
   repeat |-> [QuestionGroupKw EXCEPT !.name = "group_1", !.label = "Group 1",
                                      !.type = <<"repeat">>, !.repeat_count = "<2>"],
   counted |-> [QuestionGroupKw EXCEPT !.name = "group_1", !.label = "Group 1",
                                       !.type = <<"group">>, !.repeat_count = "<2>"]]

\* a constructor call: the class, the keyword arguments by their name in the
\* tables above, and the calls that make the items
NewQ(call) == [new |-> "Question", call |-> call, items |-> << >>]
NewG(call, items) == [new |-> "QuestionGroup", call |-> call, items |-> items]
NewS(items) == [new |-> "Survey", call |-> "survey_1", items |-> items]

\* the keyword arguments of a call whose items were constructed as `items`
Kw(call, items) ==
  IF call.new = "Question" THEN QuestionCall[call.call]
  ELSE IF call.new = "QuestionGroup"
    THEN [QuestionGroupCall[call.call] EXCEPT !.items = L(items)]
  ELSE [SurveyKw EXCEPT !.name = "survey_1", !.label = "Survey 1", !.items = L(items)]

RECURSIVE Trees(_), Forests(_)
\* the items with n Questions and QuestionGroups in all
Trees(n) ==
  IF n = 0 THEN {}
  ELSE (IF n = 1 THEN {NewQ(q) : q \in DOMAIN QuestionCall} ELSE {})
         \cup {NewG(g, f) : g \in DOMAIN QuestionGroupCall, f \in Forests(n - 1)}

\* the lists of items with n Questions and QuestionGroups in all
Forests(n) ==
  IF n = 0 THEN {<< >>}
  ELSE UNION {{<<t>> \o f : t \in Trees(k), f \in Forests(n - k)} : k \in 1..n}

SurveyArgs == {NewS(f) : f \in UNION {Forests(n) : n \in 0..MaxNodes}}

\* the value of a QuestionGroup or Survey call whose items gave `made`
construct(call, made) ==
  LET raised == {i \in 1..Len(made) : made[i].st # "ok"}
  IN IF raised # {} THEN made[CHOOSE i \in raised : \A j \in raised : i <= j]
     ELSE IF call.new = "QuestionGroup"
       THEN QuestionGroup(Kw(call, [i \in 1..Len(made) |-> made[i].obj]))
     ELSE Survey(Kw(call, [i \in 1..Len(made) |-> made[i].obj]))

RECURSIVE New(_)
\* the value of a constructor call: the items are constructed first, left to
\* right, and the first exception leaves
New(call) ==
  IF call.new = "Question" THEN Question(Kw(call, << >>))
  ELSE construct(call, [i \in 1..Len(call.items) |-> New(call.items[i])])

Init ==
  /\ pc = "call"
  /\ args \in SurveyArgs
  /\ result = Raise("none")
  /\ dfs = NoDfs
  /\ scan = NoScan
  /\ parsed = Raise("none")
  /\ reparsed = Raise("none")
  /\ session_state = NoSession
  /\ page = NoPage

\* survey = Survey(name=.., label=.., items=[..])
NewSurvey ==
  /\ pc = "call"
  /\ \E made \in {New(args)} :
       /\ result' = made
       /\ pc' = IF made.st = "ok" THEN "built" ELSE "raised"
  /\ UNCHANGED <<args, dfs, scan, parsed, reparsed, session_state, page>>

\* Survey.parse_obj(survey.dict())
ParseObjDict ==
  /\ pc = "built"
  /\ reparsed' = Survey_parse_obj(dict(result.obj))
  /\ pc' = "reparsed"
  /\ UNCHANGED <<args, result, dfs, scan, parsed, session_state, page>>

\* survey.save_to_excel(path)
SaveToExcel ==
  /\ pc = "built"
  /\ dfs' = Survey_get_dfs(result.obj)
  /\ result' = [result EXCEPT !.obj = Survey_after_get_dfs(@)]
  /\ pc' = "saved"
  /\ UNCHANGED <<args, scan, parsed, reparsed, session_state, page>>

\* Survey.parse_excel(path), up to the call of group_items
ParseExcelOpen ==
  /\ pc = "saved"
  /\ \E choice_dict \in {get_choice_dict(read_excel(dfs.choices))} :
        IF choice_dict.st # "ok"
          THEN /\ parsed' = Raise(choice_dict.st)
               /\ pc' = "done"
               /\ scan' = scan
          ELSE /\ scan' = [st |-> "ok",
                           rows |-> drop_nan_dict(read_excel(dfs.survey)),
                           choice_dict |-> choice_dict.dict, i |-> 1,
                           groups |-> << >>, current_group |-> 0]
               /\ pc' = "grouping"
               /\ parsed' = parsed
  /\ UNCHANGED <<args, result, dfs, reparsed, session_state, page>>

\* one iteration of `for row in rows` in group_items; rows is the generator
\* that links the choices of each row as it is asked for
GroupItemsRow ==
  /\ pc = "grouping"
  /\ scan.i <= Len(scan.rows)
  /\ \E next \in {next_row(scan)} :
       IF next.st # "ok"
         THEN parsed' = Raise(next.st) /\ pc' = "done" /\ scan' = scan
       ELSE parsed' = parsed /\ pc' = pc /\ scan' = [next EXCEPT !.i = @ + 1]
  /\ UNCHANGED <<args, result, dfs, reparsed, session_state, page>>

\* group_items returns; the settings are merged and Survey.parse_obj is called
ParseExcelReturn ==
  /\ pc = "grouping"
  /\ scan.i > Len(scan.rows)
  /\ parsed' = parse_settings(read_excel(dfs.settings), scan.groups)
  /\ pc' = "done"
  /\ UNCHANGED <<args, result, dfs, scan, reparsed, session_state, page>>

Next ==
  \/ NewSurvey
  \/ ParseObjDict
  \/ SaveToExcel
  \/ ParseExcelOpen
  \/ GroupItemsRow
  \/ ParseExcelReturn

Spec == Init /\ [][Next]_vars

-----------------------------------------------------------------------------
(* Survey.parse_excel of a workbook written by hand or by another tool:    *)
(* the survey sheet holds any rows, begin and end rows included            *)

\* the longest survey sheet
MaxRows == 3

\* the rows of the survey sheet
SheetRows ==
  {[type |-> <<"begin", "group">>, name |-> "group_1", label |-> "Group 1"],
   [type |-> <<"begin", "group">>, name |-> "group_2", label |-> "Group 2"],
   [type |-> <<"end", "group">>, name |-> "group_1", label |-> "Group 1"],
   [type |-> <<"text">>, name |-> "q1", label |-> "Q 1"],
   [type |-> <<"end">>, name |-> "fin", label |-> "End"],
   [type |-> <<"begin">>, name |-> "first", label |-> "Begin"],
   [type |-> <<"select_one", "color">>, name |-> "color", label |-> "Color"]}

\* the three sheets pd.read_excel is given
Workbooks ==
  {[st |-> "ok",
    survey |-> DataFrame(rows),
    choices |-> DataFrame(<<[list_name |-> "color", name |-> "r", label |-> "Red"]>>),
    settings |-> DataFrame(<<[form_id |-> "survey_1", form_title |-> "Survey 1"]>>)]
     : rows \in SeqsUpTo(SheetRows, MaxRows)}

\* a caller about to call Survey.parse_excel(args)
InitDecode ==
  /\ pc = "saved"
  /\ args = "survey.xlsx"
  /\ result = Raise("none")
  /\ dfs \in Workbooks
  /\ scan = NoScan
  /\ parsed = Raise("none")
  /\ reparsed = Raise("none")
  /\ session_state = NoSession
  /\ page = NoPage

NextDecode ==
  \/ ParseExcelOpen
  \/ GroupItemsRow
  \/ ParseExcelReturn

SpecDecode == InitDecode /\ [][NextDecode]_vars


-----------------------------------------------------------------------------
(* make_assistant.py: the executions of the page's script.  pc is the place *)
(* of the running execution: "prompt" (the `if prompt :=` test), "while"    *)
(* (the test of the loop), "body" (one pass of its body), "rerun"           *)
(* (st.rerun() ended the execution), "end" (the script ran to its end).     *)

\* the model counts failures and errors shown up to here; the tests of the
\* script compare with 3 only
MaxRetryError == 5
Inc(n) == IF n < MaxRetryError THEN n + 1 ELSE n

\* st.session_state.run: None, the dict {"status": None}, or a Run of the API
NoRun == [kind |-> "None", status |-> None]
Placeholder == [kind |-> "dict", status |-> None]
Run(status) == [kind |-> "Run", status |-> status]

\* the statuses the API gives a run; "running" is the one the script tests
RunStatuses == {"queued", "in_progress", "running", "failed", "completed"}

\* the first execution of a session: run and retry_error are set, no prompt
\* has been submitted
InitApp ==
  /\ pc = "prompt"
  /\ session_state = [run |-> Placeholder, retry_error |-> 0, thread |-> None]
  /\ page = [prompt |-> None, errors |-> 0]
  /\ args = "make_assistant.py"
  /\ result = Raise("none")
  /\ dfs = NoDfs
  /\ scan = NoScan
  /\ parsed = Raise("none")
  /\ reparsed = Raise("none")

\* st.rerun() took effect: the script runs again from the top, session_state
\* kept; the thread exists from the second execution on
Rerun ==
  /\ pc = "rerun"
  /\ pc' = "prompt"
  /\ session_state' = [session_state EXCEPT !.thread = "thread"]
  /\ page' = [prompt |-> None, errors |-> 0]
  /\ UNCHANGED <<args, result, dfs, scan, parsed, reparsed>>

\* the user submits a prompt in st.chat_input: Streamlit stops the execution
\* under way, if any, and runs the script again with the prompt
Submit ==
  /\ pc \in {"while", "body", "end"}
  /\ pc' = "prompt"
  /\ session_state' = [session_state EXCEPT !.thread = "thread"]
  /\ page' = [prompt |-> "text", errors |-> 0]
  /\ UNCHANGED <<args, result, dfs, scan, parsed, reparsed>>

\* `if prompt := st.chat_input(...)`: the message and the run are created,
\* then the script reruns unless three failures were counted
Prompt ==
  /\ pc = "prompt"
  /\ IF page.prompt = None
       THEN pc' = "while" /\ session_state' = session_state
     ELSE /\ \E status \in RunStatuses :
               session_state' = [session_state EXCEPT !.run = Run(status)]
          /\ pc' = IF session_state.retry_error < 3 THEN "rerun" ELSE "while"
  /\ UNCHANGED <<args, result, dfs, scan, parsed, reparsed, page>>

\* `while st.session_state.run is not None:`
WhileTest ==
  /\ pc = "while"
  /\ pc' = IF session_state.run.kind = "None" THEN "end" ELSE "body"
  /\ UNCHANGED <<args, result, dfs, scan, parsed, reparsed, session_state, page>>

\* one pass of the body of the loop
Body ==
  /\ pc = "body"
  /\ LET run == session_state.run
         retry_error == session_state.retry_error
     IN IF run.kind # "Run"                      \* hasattr(run, "status") fails
          THEN pc' = "while" /\ UNCHANGED <<session_state, page>>
        ELSE IF run.status = "running"
          THEN /\ pc' = IF retry_error < 3 THEN "rerun" ELSE "while"
               /\ UNCHANGED <<session_state, page>>
        ELSE IF run.status = "failed"
          THEN /\ session_state' = [session_state EXCEPT !.retry_error = Inc(@)]
               /\ IF Inc(retry_error) < 3
                    THEN pc' = "rerun" /\ page' = page
                  ELSE pc' = "while" /\ page' = [page EXCEPT !.errors = Inc(@)]
        ELSE IF run.status # "completed"
          THEN /\ \E status \in RunStatuses :       \* client...runs.retrieve
                    session_state' = [session_state EXCEPT !.run = Run(status)]
               /\ pc' = IF retry_error < 3 THEN "rerun" ELSE "while"
               /\ page' = page
        ELSE /\ session_state' = [session_state EXCEPT !.run = NoRun]
             /\ pc' = "while"
             /\ page' = page
  /\ UNCHANGED <<args, result, dfs, scan, parsed, reparsed>>

\* the steps of an execution under way
Script == Prompt \/ WhileTest \/ Body

NextApp ==
  \/ Rerun
  \/ Submit
  \/ Prompt
  \/ WhileTest
  \/ Body

\* an execution under way keeps running, and a rerun asked for takes place;
\* nothing makes the user submit a prompt
SpecApp == InitApp /\ [][NextApp]_vars /\ WF_vars(Script) /\ WF_vars(Rerun)

-----------------------------------------------------------------------------
(* The claims *)

\* the call of test_survey: one group built from name, label and items, with
\* a text and a select_one question
TestSurveyCall ==
  NewS(<<NewG("untyped", <<NewQ("q1"), NewQ("color")>>)>>)

RECURSIVE ExpectedTypes(_)
\* the type cells of the survey rows as the layout describes them: a begin
\* row, the rows of the items, an end row for a group; type and name for a
\* choice-bearing question; the type for any other
ExpectedTypes(items) ==
  IF items = << >> THEN << >>
  ELSE LET item == Head(items)
       IN (IF item.cls = "QuestionGroup"
             THEN <<(<<"begin">> \o item.type)>> \o ExpectedTypes(item.items.elems)
                    \o <<(<<"end">> \o item.type)>>
           ELSE IF Join(item.type) \in SelectTypes THEN <<(item.type \o <<item.name>>)>>
           ELSE <<item.type>>)
          \o ExpectedTypes(Tail(items))

RECURSIVE ChoiceQuestions(_)
\* the rank, select_one and select_multiple Questions of a tree
ChoiceQuestions(items) ==
  IF items = << >> THEN {}
  ELSE LET item == Head(items)
       IN (IF item.cls = "QuestionGroup" THEN ChoiceQuestions(item.items.elems)
           ELSE IF Join(item.type) \in SelectTypes THEN {item}
           ELSE {})
          \cup ChoiceQuestions(Tail(items))

RECURSIVE GroupCallsOf(_)
\* the QuestionGroup calls among the items of a call, at any depth
GroupCallsOf(items) ==
  IF items = << >> THEN {}
  ELSE LET call == Head(items)
       IN (IF call.new = "QuestionGroup"
             THEN {QuestionGroupCall[call.call]} \cup GroupCallsOf(call.items)
           ELSE {})
          \cup GroupCallsOf(Tail(items))

\* C1: every Survey that constructs comes back equal from the table round
\* trip: parse_excel of the sheets save_to_excel wrote succeeds and returns
\* a Survey equal to the original.
C1_TableRoundTrip ==
  pc = "done" => parsed.st = "ok" /\ Eq(parsed.obj, result.obj)

\* C2: the Survey of test_survey (one group built without a type, holding a
\* text and a select_one question) constructs, is written as exactly the
\* sheets survey, choices and settings, and is read back equal.
C2_TestSurveyRoundTrip ==
  args = TestSurveyCall =>
    /\ pc # "raised"
    /\ dfs.st # "none" => DOMAIN dfs = {"st", "survey", "choices", "settings"}
    /\ pc = "done" => parsed.st = "ok" /\ Eq(parsed.obj, result.obj)

\* C3: for every group of the encoded tree the survey rows hold a
\* "begin <type>" row, the rows of its items in item order, then an
\* "end <type>" row.
C3_BeginItemsEnd ==
  dfs.st = "ok" =>
    [i \in 1..Len(dfs.survey.rows) |-> dfs.survey.rows[i].type]
      = ExpectedTypes(result.obj.items.elems)

\* C4: every choice-bearing Question q of the encoded tree has a survey row
\* of type "<q.type> <q.name>" without a choices cell, the choices rows of
\* list q.name are q's choices in order, and decoding the row gives q.choices.
C4_ChoiceRows ==
  dfs.st = "ok" =>
    \A q \in ChoiceQuestions(result.obj.items.elems) :
      LET of_q(r) == r.list_name = q.name
          choice_dict == get_choice_dict(read_excel(dfs.choices))
      IN /\ \E i \in 1..Len(dfs.survey.rows) :
              /\ dfs.survey.rows[i].type = q.type \o <<q.name>>
              /\ dfs.survey.rows[i].name = q.name
              /\ "choices" \notin dfs.survey.columns
         /\ SelectSeq(dfs.choices.rows, of_q)
              = [i \in 1..Len(q.choices.elems) |->
                   [list_name |-> q.name, name |-> q.choices.elems[i].value,
                    label |-> q.choices.elems[i].label]]
         /\ choice_dict.st = "ok"
         /\ \A r \in {link_choices(
                        [type |-> q.type \o <<q.name>>, name |-> q.name],
                        choice_dict.dict)} :
              r.st = "ok" /\ r.row.choices = q.choices

\* C5: every Survey that constructs, those holding a group built without a
\* type or with a repeat_count among them, comes back equal from
\* Survey.parse_obj(survey.dict()).
C5_DictRoundTrip ==
  /\ pc = "reparsed" => reparsed.st = "ok" /\ Eq(reparsed.obj, result.obj)
  /\ (\E g \in GroupCallsOf(args.items) :
        g.type = <<Missing>> \/ g.repeat_count # Missing) => pc # "raised"

\* the caller passed a name, a label and items that validate
GroupCallIsSound(kw) ==
  /\ kw.name = "group_1"
  /\ kw.label = "Group 1"
  /\ kw.items.kind \in {"missing", "list"}

\* C6: QuestionGroup(name, label, items), type and repeat_count omitted,
\* succeeds and its type is "group".
C6_DefaultTypeIsGroup ==
  (pc = "done" /\ GroupCallIsSound(args) /\ args.type = <<Missing>>
     /\ args.repeat_count = Missing)
    => result.st = "ok" /\ result.obj.type = <<"group">>

\* C7: QuestionGroup with a repeat_count and with type omitted or "group"
\* succeeds and its type is "repeat".
C7_CountForcesRepeat ==
  (pc = "done" /\ GroupCallIsSound(args) /\ args.type \in {<<Missing>>, <<"group">>}
     /\ args.repeat_count \notin {Missing, None})
    => result.st = "ok" /\ result.obj.type = <<"repeat">>

\* C8: a constructed QuestionGroup has type "repeat" exactly when its
\* repeat_count is not None, and type "repeat" without a repeat_count fails.
C8_RepeatIffCount ==
  pc = "done" =>
    /\ result.st = "ok" =>
         (result.obj.type = <<"repeat">> <=> result.obj.repeat_count # None)
    /\ (args.type = <<"repeat">> /\ args.repeat_count \in {Missing, None})
         => result.st # "ok"

\* the caller passed one of the question types, a name, a label, the
\* type-conditional fields the type requires (others may come with them), and
\* nothing else but the appearance
QuestionCallIsSound(kw) ==
  /\ Len(kw.type) = 1 /\ kw.type[1] \in QuestionTypes
  /\ kw.name = "q1" /\ kw.label = "Q 1"
  /\ kw.calculation \in {Missing, "a+b"}
  /\ kw.choices \in {MissingL, L(<<ChoiceObj("r", "Red")>>)}
  /\ kw.file \in {Missing, "choices.csv"}
  /\ kw.range \in {MissingD, RangeObj("<1>", "<10>", "<1>")}
  /\ kw.type[1] = "calculate" => kw.calculation # Missing
  /\ kw.type[1] \in SelectTypes => kw.choices # MissingL
  /\ kw.type[1] \in FromFileTypes => kw.file # Missing
  /\ kw.type[1] = "range" => kw.range # MissingD
  /\ kw.required = Missing /\ kw.logics = MissingL /\ kw.parameters = MissingD

\* C9: for every pair of base_appearance_combos, a Question of that type
\* with that attribute (the member or its value) and the fields the type
\* requires constructs.
C9_AllowListConstructs ==
  (pc = "done" /\ QuestionCallIsSound(args)
     /\ \E n \in AppearanceNames :
          /\ <<n, args.type[1]>> \in base_appearance_combos
          /\ args.appearance_attributes \in {Member(n), AppearanceAttributes[n]})
    => result.st = "ok"

\* C10: for every question type, a Question of that type with
\* appearance_attributes "hidden" and the fields the type requires constructs
\* and carries "hidden".
C10_HiddenOnEveryType ==
  (pc = "done" /\ QuestionCallIsSound(args)
     /\ args.appearance_attributes \in {"hidden", Member("hidden")})
    => result.st = "ok" /\ result.obj.appearance_attributes = "hidden"

C10_Witness ==
  /\ pc = "done"
  /\ QuestionCallIsSound(args)
  /\ args.type = <<"range">>
  /\ args.appearance_attributes = "hidden"
  /\ result.st = "ok"
  /\ result.obj.appearance_attributes = "hidden"

\* the value check_appearance_attributes is handed for what the caller passed
SuppliedAppearance(a) ==
  IF \E n \in AppearanceNames : a = Member(n)
    THEN AppearanceAttributes[CHOOSE n \in AppearanceNames : a = Member(n)]
  ELSE a

\* C11: a Question call with an appearance_attributes whose pair with the type
\* is not in Appearance_Question_Combos fails, whatever the other fields, and
\* no constructed Question carries a pair that is not in the relation.
C11_IncompatiblePairFails ==
  pc = "done" =>
    /\ (/\ args.appearance_attributes \notin {Missing, None}
        /\ <<SuppliedAppearance(args.appearance_attributes), Join(args.type)>>
             \notin Appearance_Question_Combos)
         => result.st # "ok"
    /\ (result.st = "ok" /\ result.obj.appearance_attributes # None)
         => <<result.obj.appearance_attributes, Join(result.obj.type)>>
              \in Appearance_Question_Combos

C11_Witness ==
  /\ pc = "done"
  /\ QuestionCallIsSound(args)
  /\ args.type = <<"integer">>
  /\ args.appearance_attributes = "multiline"
  /\ result.st = "ValidationError"

Absent(kw, field) ==
  IF field = "choices" THEN kw.choices \in {MissingL, NoneL}
  ELSE IF field = "range" THEN kw.range \in {MissingD, NoneD}
  ELSE kw[field] \in {Missing, None}

\* the field a type requires
RequiredField ==
  [t \in {"calculate", "range"} \cup SelectTypes \cup FromFileTypes |->
     IF t = "calculate" THEN "calculation"
     ELSE IF t = "range" THEN "range"
     ELSE IF t \in SelectTypes THEN "choices"
     ELSE "file"]

\* C13: a Question call fails when the field its type requires is absent:
\* calculation for calculate, choices for rank, select_one and
\* select_multiple, file for the two from_file types, range for range.
C13_RequiredFieldAbsentFails ==
  pc = "done" =>
    \A t \in DOMAIN RequiredField :
      (args.type = <<t>> /\ Absent(args, RequiredField[t])) => result.st # "ok"

C13_Witness ==
  /\ pc = "done"
  /\ args.type = <<"calculate">>
  /\ args.name = "q1" /\ args.label = "Q 1"
  /\ args.calculation = Missing
  /\ args.appearance_attributes = Missing
  /\ result.st = "ValidationError"

\* C14: on every constructed Question, whatever the caller supplied,
\* calculation is None unless the type is calculate, choices and allow_other
\* are None unless the type is rank, select_one or select_multiple,
\* accuracyThreshold is None unless the type is geopoint, geotrace or
\* geoshape, and file is None unless the type is one of the from_file types.
C14_UnrelatedFieldsCleared ==
  (pc = "done" /\ result.st = "ok") =>
    LET q == result.obj
        type == Join(q.type)
    IN /\ type # "calculate" => q.calculation = None
       /\ type \notin SelectTypes => q.choices = NoneL /\ q.allow_other = None
       /\ type \notin GeoTypes => q.accuracyThreshold = None
       /\ type \notin FromFileTypes => q.file = None

C14_Witness ==
  /\ pc = "done"
  /\ args.type = <<"text">>
  /\ args.calculation = "a+b"
  /\ args.choices = L(<<ChoiceObj("r", "Red")>>)
  /\ args.allow_other = PyTrue
  /\ args.accuracyThreshold = "<5.0>"
  /\ args.file = "choices.csv"
  /\ result.st = "ok"
  /\ result.obj.calculation = None
  /\ result.obj.choices = NoneL

\* C15: every constructed Question of type calculate has range, choices, file
\* and accuracyThreshold at None, whatever was supplied for them.
C15_CalculateClearsAll ==
  (pc = "done" /\ result.st = "ok" /\ Join(result.obj.type) = "calculate") =>
    /\ result.obj.range = NoneD
    /\ result.obj.choices = NoneL
    /\ result.obj.file = None
    /\ result.obj.accuracyThreshold = None

\* C16: every constructed Logic has message None unless its type is
\* constraint: a message passed with trigger, skip or relevant is cleared, and
\* a message passed with constraint is kept.
C16_MessageOnlyOnConstraint ==
  (pc = "done" /\ result.st = "ok" /\ result.obj.cls = "Logic") =>
    /\ result.obj.type # "constraint" => result.obj.message = None
    /\ (result.obj.type = "constraint" /\ args.message \notin {Missing, None})
         => result.obj.message = str_validator(args.message).v

C16_Witness ==
  /\ pc = "done"
  /\ args = LogicKw("skip", "${q1} = 2", "positive")
  /\ result = Ok([cls |-> "Logic", type |-> "skip", expression |-> "${q1} = 2",
                  message |-> None])

\* a second case of C16: the message of a constraint is kept
C16_Kept ==
  /\ pc = "done"
  /\ args = LogicKw("constraint", ". > 0", "positive")
  /\ result.st = "ok" /\ result.obj.message = "positive"

\* C17: constructing a Logic whose type is not one of trigger, skip, relevant,
\* constraint fails, and every constructed Logic has its type in that set.
C17_TypeInLogicTypes ==
  pc = "done" =>
    /\ args.type \notin LogicTypes => result.st # "ok"
    /\ result.st = "ok" => result.obj.type \in LogicTypes

\* C18: a constraint logic requires a message: Logic(type="constraint",
\* expression=...) without message fails.
C18_ConstraintNeedsMessage ==
  (pc = "done" /\ args.type = "constraint" /\ args.message = Missing)
    => result.st # "ok"

\* C19: every failed construction of a Question, QuestionGroup or Logic is a
\* ValidationError and no other kind of exception, whatever fields are missing
\* or ill-typed, a missing type and a type-conditional field that fails
\* coercion included.
C19_OnlyValidationError ==
  pc = "done" => result.st \in {"ok", "ValidationError"}

\* the row the loop of group_items is about to read
RowRead == scan.rows[scan.i]

\* the loop read RowRead and went on to the next row
RowDone == pc = "grouping" /\ pc' = "grouping" /\ scan'.i = scan.i + 1

\* C20: in group_items a begin row read while a group is open makes a
\* QuestionGroup that is appended to the items of the open group; a new group
\* is appended to the outer list only when no group is open.
C20_BeginNestsInOpenGroup ==
  [][(RowDone /\ startswith(RowRead.type, "begin") /\ scan.current_group # 0)
       => /\ Len(scan'.groups) = Len(scan.groups)
          /\ \E g \in 1..Len(scan.groups) :
               Len(scan'.groups[g].items.elems) = Len(scan.groups[g].items.elems) + 1]_vars

\* the loop of group_items is about to read RowRead
RowPending == pc = "grouping" /\ scan.i <= Len(scan.rows)

\* C21: in group_items a row whose type starts with "end", read when no group
\* is open, is ignored: it adds no item, raises no error, and the scan goes on
\* with the next row.
C21_StrayEndIgnored ==
  [][(RowPending /\ startswith(RowRead.type, "end") /\ scan.current_group = 0)
       => /\ pc' = "grouping"
          /\ scan'.i = scan.i + 1
          /\ scan'.groups = scan.groups]_vars

\* a row that is neither a begin row nor an end row
IsQuestionRow(row) == ~startswith(row.type, "begin") /\ ~startswith(row.type, "end")

\* l2 is l1 with one Question named as the row at its end
OneMore(l1, l2, row) ==
  /\ Len(l2) = Len(l1) + 1
  /\ SubSeq(l2, 1, Len(l1)) = l1
  /\ l2[Len(l2)].cls = "Question"
  /\ l2[Len(l2)].name = row.name

\* C22: in group_items every row that is neither a begin row nor an end row
\* becomes exactly one Question, appended to the items of the open group if
\* one is open and to the outer list otherwise; each list keeps the order of
\* the rows (the Question goes to the end, what was there stays).
C22_QuestionRowAppended ==
  [][(RowDone /\ IsQuestionRow(RowRead))
       => /\ scan'.current_group = scan.current_group
          /\ IF scan.current_group = 0
               THEN OneMore(scan.groups, scan'.groups, RowRead)
             ELSE /\ Len(scan'.groups) = Len(scan.groups)
                  /\ \A g \in 1..Len(scan.groups) :
                       IF g = scan.current_group
                         THEN /\ OneMore(scan.groups[g].items.elems,
                                         scan'.groups[g].items.elems, RowRead)
                              /\ [scan'.groups[g] EXCEPT !.items = scan.groups[g].items]
                                   = scan.groups[g]
                       ELSE scan'.groups[g] = scan.groups[g]]_vars

C22_Witness ==
  /\ pc = "grouping"
  /\ scan.i = 4
  /\ scan.current_group = 1
  /\ Len(scan.groups) = 1
  /\ Len(scan.groups[1].items.elems) = 2
  /\ scan.groups[1].items.elems[1].name = "q1"
  /\ scan.groups[1].items.elems[2].name = "color"
  /\ scan.groups[1].items.elems[2].choices = L(<<ChoiceObj("r", "Red")>>)

\* the items are Questions, none of them a group
AllQuestions(items) == \A i \in 1..Len(items) : items[i].cls = "Question"

\* C23: when no choices row carries the list_name a choice-bearing survey row
\* names, and so when the choices sheet has no rows at all, as it is written
\* for a Survey without choices, decoding succeeds and the question gets an
\* empty list of choices.
C23_NoChoiceRowsDecode ==
  (/\ pc = "done"
   /\ AllQuestions(result.obj.items.elems)
   /\ dfs.choices.rows = << >>)
    => /\ parsed.st = "ok"
       /\ \A q \in ChoiceQuestions(parsed.obj.items.elems) : q.choices = L(<< >>)

RECURSIVE RepeatGroups(_)
\* name, type, repeat_count and logics of the repeat groups of a tree: the
\* QuestionGroups of type repeat that have a repeat_count
RepeatGroups(items) ==
  IF items = << >> THEN {}
  ELSE LET item == Head(items)
       IN (IF item.cls = "QuestionGroup"
             THEN (IF Join(item.type) = "repeat" /\ item.repeat_count # None
                     THEN {[name |-> item.name, type |-> item.type,
                            repeat_count |-> item.repeat_count,
                            logics |-> item.logics]}
                   ELSE {})
                  \cup RepeatGroups(item.items.elems)
           ELSE {})
          \cup RepeatGroups(Tail(items))

\* C24: for a Survey that holds a repeat group (type repeat, repeat_count not
\* None) decoding the sheets it was encoded to succeeds, and the decoded group
\* has type repeat and the repeat_count and logics of the original.
C24_RepeatGroupRoundTrip ==
  (pc = "done" /\ RepeatGroups(result.obj.items.elems) # {})
    => /\ parsed.st = "ok"
       /\ RepeatGroups(parsed.obj.items.elems) = RepeatGroups(result.obj.items.elems)

\* the columns that hold a bool field
BoolCols == {"required", "allow_other"}

\* C25: in every sheet Survey.get_dfs returns each boolean field value
\* (required, allow_other) is the token "yes" when True and "no" when False.
C25_BooleansYesNo ==
  dfs.st = "ok" =>
    \A i \in 1..Len(dfs.survey.rows) : \A k \in BoolCols \cap dfs.survey.columns :
      dfs.survey.rows[i][k] \in {None, "yes", "no"}

\* C26: encoding only reads the tree: when Survey.get_dfs returns, the Survey
\* and every QuestionGroup, Question and Choice in it have the field values
\* they had before the call (items still there, types not rewritten to begin
\* or end forms, choices not stripped).
C26_EncodingReadsOnly ==
  [][(pc = "built" /\ pc' = "saved") => result' = result]_vars

C26_Witness ==
  /\ pc = "saved"
  /\ dfs.st = "ok"
  /\ args = NewS(<<NewG("group", <<NewQ("q1"), NewQ("color")>>)>>)
  /\ result.obj.items.elems[1].type = <<"group">>
  /\ Len(result.obj.items.elems[1].items.elems) = 2
  /\ result.obj.items.elems[1].items.elems[2].choices
       = L(<<ChoiceObj("r", "Red"), ChoiceObj("b", "Blue")>>)

\* the choice-bearing Questions among items, in order
IsChoiceQuestion(item) == item.cls = "Question" /\ Join(item.type) \in SelectTypes
ChoiceQuestionSeq(items) == SelectSeq(items, IsChoiceQuestion)

\* C27: after a table round trip each choice-bearing Question has exactly the
\* choices it had before encoding, also when two choice-bearing Questions of
\* the Survey have the same name and different lists of choices.
C27_ChoicesKeptPerQuestion ==
  (/\ pc = "done"
   /\ AllQuestions(result.obj.items.elems)
   /\ \A q \in ChoiceQuestions(result.obj.items.elems) : q.choices.elems # << >>
   /\ ChoiceQuestions(result.obj.items.elems) # {})
    => /\ parsed.st = "ok"
       /\ LET before == ChoiceQuestionSeq(result.obj.items.elems)
              after == ChoiceQuestionSeq(parsed.obj.items.elems)
          IN /\ Len(after) = Len(before)
             /\ \A i \in 1..Len(before) : after[i].choices = before[i].choices

\* the row of a Question of the metadata type end or begin
IsMetadataRow(row) == row.type \in {<<"end">>, <<"begin">>}

\* C28: the decoder takes as group delimiters only the begin and end rows of
\* groups: the row of a Question whose type is the metadata type end (or
\* begin), inside or outside a group, is decoded as a Question at its
\* position and opens or closes no group.
C28_MetadataRowIsQuestion ==
  [][(RowPending /\ IsMetadataRow(RowRead))
       => /\ pc' = "grouping"
          /\ scan'.current_group = scan.current_group
          /\ Len(scan'.groups) = Len(scan.groups) + (IF scan.current_group = 0 THEN 1 ELSE 0)
          /\ IF scan.current_group = 0
               THEN OneMore(scan.groups, scan'.groups, RowRead)
             ELSE OneMore(scan.groups[scan.current_group].items.elems,
                          scan'.groups[scan.current_group].items.elems, RowRead)]_vars

\* C29: every execution of the script leaves the run-status loop after
\* finitely many passes, by a rerun or by setting run to None, for the
\* placeholder {"status": None}, for a run of any status, and for every
\* retry_error.
C29_LoopIsLeft ==
  (pc = "while") ~> (pc \in {"rerun", "end"})

\* C30: retry_error never exceeds 3: a failed run is retried while
\* retry_error < 3, and when the third failure is counted the FAILED error is
\* shown once and the counter is not incremented again.
C30_RetryErrorAtMostThree ==
  session_state.retry_error <= 3 /\ page.errors <= 1

====
